---- MODULE Spec2Model ----
(***************************************************************************)
(* Metropolis samplers of mango915/Forests.                                *)
(*                                                                         *)
(*   impl = "metropolis"  models src/metropolis.py        (class Metropolis)*)
(*   impl = "backup"      models src/metropolis_backup.py (class Metropolis)*)
(*                                                                         *)
(* A state is one sampler object together with the position of the call    *)
(* that is running on it.  Numbers are integers: multipliers and           *)
(* constraint values are drawn from integers, max_acceptance is a rational *)
(* <<numerator, denominator>>, and a uniform draw P in [0,1) is one of the *)
(* levels 0/URes .. (URes-1)/URes.  A trajectory entry 0 is the            *)
(* placeholder written by np.zeros.  Python's None for a list is <<>>.     *)
(***************************************************************************)
EXTENDS Integers, Sequences, FiniteSets, TLC

VARIABLES
    impl,               \* which module the sampler was built from
    S, M, N,            \* self.S, self.M, self.N
    max_acceptance,     \* self.max_acceptance, <<num, den>>
    L_multipliers,      \* self.L_multipliers (<<>> is None)
    constraint_funcs,   \* self.constraint_funcs (<<>> is None), names of callables
    history,            \* metropolis.py: self.history
    configs,            \* metropolis.py: self.configs (<<>> is None)
    s_last,             \* metropolis.py: calibrate's local s_last
    index,              \* metropolis.py: calibrate's local index
    i,                  \* metropolis.py: sample's loop variable (iterations done)
    acceptance_history, \* metropolis_backup.py: self.acceptance_history
    model_configs,      \* metropolis_backup.py: self.model_configs
    configuration,      \* metropolis_backup.py: the array shared by calibrate and sample
    Sp,                 \* metropolis_backup.py: local Sp
    flip_spins,         \* metropolis_backup.py: local flip_spins
    k,                  \* metropolis_backup.py: entries of flip_spins consumed
    acceptance_rate,    \* metropolis_backup.py: local acceptance_rate, <<num, den>>
    pc,                 \* position of the running call
    seeded,             \* whether the caller seeds np.random before every sample()
    tape,               \* seeded: the raw values the seeded generator yields
    pos,                \* seeded: values consumed since the last seeding
    calls,              \* number of sample() calls made on the sampler
    outcome,            \* result of the latest choice()/acceptance() call
    frozen,             \* the working configuration when calibration's loop ended
    h0,                 \* len(self.history) when the running sample() call began
    first,              \* what the first completed sample() call returned
    ham_result,         \* how the latest set_hamiltonian call ended
    decision            \* the latest direct call of choice()/acceptance()

vars == <<impl, S, M, N, max_acceptance, L_multipliers, constraint_funcs,
          history, configs, s_last, index, i, acceptance_history,
          model_configs, configuration, Sp, flip_spins, k, acceptance_rate,
          pc, seeded, tape, pos, calls, outcome, frozen, h0, first,
          ham_result, decision>>

varsParams == <<impl, S, M, max_acceptance, seeded>>
varsBackup == <<acceptance_history, model_configs, configuration, Sp,
                flip_spins, k, acceptance_rate>>
varsMetro  == <<history, configs, s_last, index, i, h0>>
varsHam    == <<L_multipliers, constraint_funcs, ham_result>>
varsRng    == <<tape, pos>>

----------------------------------------------------------------------------
(* Bounds of the model.                                                    *)

MaxS == 2
MaxM == 2
MaxN == 2
MaxCalls == 2
MaxHistory == 5
URes == 3

\* sample(N = None): the encoding of the missing argument
NoneArg == -1

MaxAcceptanceValues == {<<1, 2>>, <<1, 1>>}

\* the arguments sample() is called with: none, or an explicit N
SampleArguments == {NoneArg, MaxN}

----------------------------------------------------------------------------
(* Arithmetic helpers.                                                     *)

Min(a, b) == IF a < b THEN a ELSE b

Max(a, b) == IF a > b THEN a ELSE b

RECURSIVE SumSeq(_)
SumSeq(q) == IF q = <<>> THEN 0 ELSE Head(q) + SumSeq(Tail(q))

\* np.exp(-d) for an integer d >= 0, times 1000 (rounded down); beyond the
\* table the value is below 1/54.
ExpTimes1000(d) ==
    CASE d = 0 -> 1000
      [] d = 1 -> 2718
      [] d = 2 -> 7389
      [] d = 3 -> 20085
      [] OTHER -> 54598

\* P < np.exp(-d) for P = u/URes and d >= 0:  u * e^d < URes
BelowExp(u, d) == u * ExpTimes1000(d) < URes * 1000

----------------------------------------------------------------------------
(* The random stream.  A draw is a raw value; its consumer reads it as a   *)
(* spin, an index or a uniform level.                                      *)

RawMax == Max(Max(2, URes), MaxS)

Raw == 0 .. (RawMax - 1)

AsSpin(r) == IF r % 2 = 0 THEN 1 ELSE -1

AsIndex(r) == r % S

AsUniform(r) == r % URes

\* The call consumes the raw values d, in order, from np.random; m[j] is the
\* number of outcomes of the j-th consumer.  A seeded generator repeats the
\* values it yielded after the previous seeding; a value never yielded before
\* is any value (one representative per outcome of its consumer).
Consume(d, m) ==
    /\ \A j \in 1 .. Len(d) :
         IF seeded /\ pos + j <= Len(tape)
         THEN d[j] = tape[pos + j]
         ELSE d[j] < m[j]
    /\ IF seeded
       THEN /\ tape' = IF pos + Len(d) <= Len(tape) THEN tape
                       ELSE SubSeq(tape, 1, pos) \o d
            /\ pos' = pos + Len(d)
       ELSE UNCHANGED varsRng

----------------------------------------------------------------------------
(* metropolis.py                                                           *)

\* the callables a caller may pass as constraint functions
ApplyConstraint(f, s) ==
    CASE f = "sum"   -> SumSeq(s)
      [] f = "pair"  -> SumSeq(s) * SumSeq(s)
      [] f = "first" -> s[1]
      [] OTHER       -> 1

HamiltonianChoices ==
    { <<<<1>>, <<"sum">>>>,
      <<<<2>>, <<"one">>>>,
      <<<<1, 1>>, <<"sum">>>>,
      <<<<1>>, <<"sum", "first">>>> }

\* variant of LengthsDiffer: only a shorter multiplier list is rejected
LengthsDifferShorter(Lm, cf) == Len(Lm) < Len(cf)

\* line 42: len(L_multipliers) != len(constraint_funcs)
LengthsDiffer(Lm, cf) == Len(Lm) # Len(cf)

set_hamiltonian(Lm, cf) ==
    /\ impl = "metropolis"
    /\ pc \in {"idle", "returned", "raised"}
    /\ L_multipliers' = Lm
    /\ constraint_funcs' = cf
    /\ ham_result' = IF LengthsDiffer(Lm, cf) THEN "raised" ELSE "ok"
    /\ UNCHANGED <<varsParams, decision, N, varsMetro, varsBackup, varsRng, pc, calls,
                   outcome, frozen, first>>

\* compute_energy raises when constraint_funcs is None (map over None) or
\* when np.dot meets two vectors of different lengths
EnergyRaises ==
    \/ constraint_funcs = <<>>
    \/ Len(constraint_funcs) # Len(L_multipliers)

compute_energy(s) ==
    SumSeq([j \in 1 .. Len(constraint_funcs) |->
              ApplyConstraint(constraint_funcs[j], s) * L_multipliers[j]])

\* variant of ChoiceDraws: the uniform value is drawn before the energy test
ChoiceDrawsAlways(last_config, new_config) == TRUE

\* whether choice() reaches np.random.random()
ChoiceDraws(last_config, new_config) ==
    ~ (compute_energy(new_config) < compute_energy(last_config))

\* choice(last_config, new_config) when the uniform draw, if taken, is u/URes
choice(last_config, new_config, u) ==
    IF compute_energy(new_config) < compute_energy(last_config)
    THEN TRUE
    ELSE BelowExp(u, compute_energy(new_config) - compute_energy(last_config))

\* variant of Flipped: the copy negates every site
FlippedAll(s, flip_spin) == [j \in 1 .. Len(s) |-> - s[j]]

\* s_next = np.copy(s); s_next[flip_spin] = -s[flip_spin]   (flip_spin 0-based)
Flipped(s, flip_spin) == [s EXCEPT ![flip_spin + 1] = - s[flip_spin + 1]]

\* variant of HistoryEntry: every proposal is logged as accepted
HistoryEntryAlwaysOne(accepted) == 1

\* lines 75-79, 94-97, 121-127: history.append(1) on acceptance, else append(0)
HistoryEntry(accepted) == IF accepted THEN 1 ELSE 0

\* the spin vectors of length s
Configurations(s) == [1 .. s -> {1, -1}]

\* a caller invokes choice(last_config, new_config) on the sampler; the
\* call changes nothing on the object and takes at most one uniform value
choice_call ==
    /\ impl = "metropolis"
    /\ pc \in {"idle", "returned", "raised"}
    /\ \E last_config \in Configurations(S), new_config \in Configurations(S),
          r \in Raw :
         IF EnergyRaises
         THEN /\ outcome' = "none"
              /\ decision' = <<>>
              /\ UNCHANGED varsRng
         ELSE LET drawn == IF ChoiceDraws(last_config, new_config)
                          THEN <<r>> ELSE <<>>
              IN /\ Consume(drawn, <<URes>>)
                 /\ outcome' = IF choice(last_config, new_config, AsUniform(r))
                               THEN "accept" ELSE "reject"
                 /\ decision' =
                      <<[dE |-> compute_energy(new_config)
                                  - compute_energy(last_config),
                         P |-> [j \in 1 .. Len(drawn) |-> AsUniform(drawn[j])]]>>
    /\ UNCHANGED <<varsParams, varsHam, varsMetro, varsBackup, N, pc, calls,
                   frozen, first>>

\* variant of Zeros: one row too many
ZerosExtraRow(n, s) == [r \in 1 .. n + 1 |-> [c \in 1 .. s |-> 0]]

\* np.zeros((n, s))
Zeros(n, s) == [r \in 1 .. n |-> [c \in 1 .. s |-> 0]]

\* self.history[-idx:]
LastOf(h, idx) ==
    IF idx = 0 THEN h ELSE SubSeq(h, Max(1, Len(h) - idx + 1), Len(h))

\* variant of MeanAbove: the loop also continues at equality
MeanAboveOrEqual(window, acc) == SumSeq(window) * acc[2] >= acc[1] * Len(window)

\* np.mean(window) > max_acceptance
MeanAbove(window, acc) == SumSeq(window) * acc[2] > acc[1] * Len(window)

\* the condition of calibrate's while loop
CalibrateCond ==
    \/ Len(history) < M
    \/ /\ MeanAbove(LastOf(history, index), max_acceptance)
       /\ Len(history) >= M

\* lines 109-112, up to the call of calibrate.  A caller that seeds np.random
\* does so right before the call, which rewinds the stream (pos = 0).
sample_call(n) ==
    /\ impl = "metropolis"
    /\ pc \in {"idle", "returned", "raised"}
    /\ calls < MaxCalls
    /\ N' = IF n # NoneArg THEN n ELSE N
    /\ configs' = Zeros(N', S)
    /\ pc' = "calibrate"
    /\ calls' = calls + 1
    /\ h0' = Len(history)
    /\ pos' = 0
    /\ s_last' = <<>>
    /\ index' = 0
    /\ i' = 0
    /\ outcome' = "none"
    /\ frozen' = <<>>
    /\ UNCHANGED <<varsParams, decision, varsHam, varsBackup, history, tape, first>>

\* line 68: s_last = np.random.choice([+1,-1], size = self.S)
calibrate_draw ==
    /\ impl = "metropolis"
    /\ pc = "calibrate"
    /\ \E d \in [1 .. S -> Raw] :
         /\ Consume(d, [j \in 1 .. S |-> 2])
         /\ s_last' = [j \in 1 .. S |-> AsSpin(d[j])]
    /\ pc' = "calibrate_first"
    /\ UNCHANGED <<varsParams, decision, varsHam, varsBackup, N, history, configs, index,
                   i, h0, calls, outcome, frozen, first>>

\* one proposal of calibrate: lines 70-79 and 89-97, then index (85, 100)
CalibrateAttempt ==
    \E d \in [1 .. 2 -> Raw] :
      LET flip_spin == AsIndex(d[1])
          s_next == Flipped(s_last, flip_spin)
      IN IF EnergyRaises
         THEN /\ Consume(<<d[1]>>, <<S>>)
              /\ pc' = "raised"
              /\ UNCHANGED <<history, s_last, index, outcome>>
         ELSE /\ Consume(IF ChoiceDraws(s_last, s_next) THEN d ELSE <<d[1]>>,
                         <<S, URes>>)
              /\ IF choice(s_last, s_next, AsUniform(d[2]))
                 THEN /\ history' = Append(history, HistoryEntry(TRUE))
                      /\ s_last' = s_next
                      /\ outcome' = "accept"
                 ELSE /\ history' = Append(history, HistoryEntry(FALSE))
                      /\ s_last' = s_last
                      /\ outcome' = "reject"
              /\ index' = Min(Len(history'), M)
              /\ pc' = "calibrate_loop"

calibrate_first ==
    /\ impl = "metropolis"
    /\ pc = "calibrate_first"
    /\ Len(history) < MaxHistory
    /\ CalibrateAttempt
    /\ UNCHANGED <<varsParams, decision, varsHam, varsBackup, N, configs, i, h0, calls,
                   frozen, first>>

calibrate_loop ==
    /\ impl = "metropolis"
    /\ pc = "calibrate_loop"
    /\ CalibrateCond
    /\ Len(history) < MaxHistory
    /\ CalibrateAttempt
    /\ UNCHANGED <<varsParams, decision, varsHam, varsBackup, N, configs, i, h0, calls,
                   frozen, first>>

\* line 105: self.configs[0] = np.copy(s_last); IndexError when N = 0
calibrate_exit ==
    /\ impl = "metropolis"
    /\ pc = "calibrate_loop"
    /\ ~ CalibrateCond
    /\ frozen' = s_last
    /\ IF N = 0
       THEN pc' = "raised" /\ UNCHANGED <<configs, i>>
       ELSE /\ configs' = [configs EXCEPT ![1] = s_last]
            /\ i' = 0
            /\ pc' = "sampling"
    /\ UNCHANGED <<varsParams, decision, varsHam, varsBackup, varsRng, N, history,
                   s_last, index, h0, calls, outcome, first>>

\* variant of SampleRow: the proposal is stored whatever the outcome
SampleRowAlwaysNew(accepted, s_old, s_next) == s_next

\* the row stored at i+1 by one iteration of sample's loop
SampleRow(accepted, s_old, s_next) == IF accepted THEN s_next ELSE s_old

\* variant of SampleRange: one iteration too few
SampleRangeShort(n) == n - 2

\* range(self.N-1): the number of iterations of sample's loop
SampleRange(n) == n - 1

\* variant of RowAfter: the iteration writes the row it read
RowAfterSame(r) == r

\* the 0-based row an iteration writes, given the 0-based row it reads
RowAfter(r) == r + 1

\* lines 116-127, one iteration
sample_loop ==
    /\ impl = "metropolis"
    /\ pc = "sampling"
    /\ i < SampleRange(N)
    /\ Len(history) < MaxHistory
    /\ \E d \in [1 .. 2 -> Raw] :
         LET flip_spin == AsIndex(d[1])
             s_old == configs[i + 1]
             s_next == Flipped(s_old, flip_spin)
             accepted == choice(s_old, s_next, AsUniform(d[2]))
         IN /\ Consume(IF ChoiceDraws(s_old, s_next) THEN d ELSE <<d[1]>>,
                       <<S, URes>>)
            /\ history' = Append(history, HistoryEntry(accepted))
            /\ outcome' = IF accepted THEN "accept" ELSE "reject"
            /\ configs' = [configs EXCEPT
                             ![RowAfter(i) + 1] =
                                 SampleRow(accepted, s_old, s_next)]
    /\ i' = i + 1
    /\ UNCHANGED <<varsParams, decision, varsHam, varsBackup, N, s_last, index, h0, pc,
                   calls, frozen, first>>

\* line 129
sample_return ==
    /\ impl = "metropolis"
    /\ pc = "sampling"
    /\ ~ (i < SampleRange(N))
    /\ pc' = "returned"
    /\ first' = IF seeded /\ first = <<>>
                THEN <<[trajectory |-> configs, N |-> N, L |-> L_multipliers,
                        funcs |-> constraint_funcs]>>
                ELSE first
    /\ UNCHANGED <<varsParams, decision, varsHam, varsBackup, varsMetro, varsRng, N,
                   calls, outcome, frozen>>

----------------------------------------------------------------------------
(* metropolis_backup.py                                                    *)

\* the multiplier vectors a caller may pass for a system of s spins:
\* index 0 weighs the pairing term, index j+1 the bias of site j
BackupMultipliers(s) ==
    { [j \in 1 .. s + 1 |-> IF j = 1 THEN 1 ELSE 0],
      [j \in 1 .. s + 1 |-> IF j = 2 THEN 1 ELSE 0],
      [j \in 1 .. s + 1 |-> j - 2] }

\* np.count_nonzero of a vector
CountNonzero(v) == Cardinality({j \in 1 .. Len(v) : v[j] # 0})

\* configuration + 1: nonzero exactly at the sites holding +1
PlusOne(c) == [j \in 1 .. Len(c) |-> c[j] + 1]

\* pairing(configs): mean over the rows of (2*S_present - S)^2
pairing(cfgs) ==
    SumSeq([r \in 1 .. Len(cfgs) |->
              (2 * CountNonzero(cfgs[r]) - S) * (2 * CountNonzero(cfgs[r]) - S)])
      \div Len(cfgs)

\* model_m(configs): 2*p_i - 1, p_i the share of rows that are nonzero at i
model_m(cfgs) ==
    [c \in 1 .. S |->
       (2 * Cardinality({r \in 1 .. Len(cfgs) : cfgs[r][c] # 0})) \div Len(cfgs) - 1]

\* compute_energy(configs, L_multipliers) of metropolis_backup.py
compute_energy_backup(cfgs, Lm) ==
    LET model_parameters == <<pairing(cfgs)>> \o model_m(cfgs)
    IN SumSeq([j \in 1 .. Len(model_parameters) |-> model_parameters[j] * Lm[j]])

\* dE(Sp, spin, k), k 0-based
dE(sp, spin, kk) ==
    LET l_k == L_multipliers[kk + 1]
        l_0 == L_multipliers[1]
    IN 2 * l_k * spin + 4 * l_0 * spin * (2 * sp - S + spin)

\* whether acceptance() reaches np.random.random()
AcceptanceDraws(sp, spin, kk) == ~ (dE(sp, spin, kk) < 0)

\* acceptance(Sp, spin, k) when the uniform draw, if taken, is u/URes
acceptance(sp, spin, kk, u) ==
    IF dE(sp, spin, kk) < 0 THEN TRUE ELSE BelowExp(u, dE(sp, spin, kk))

\* a caller invokes acceptance(Sp, spin, k) on the sampler
acceptance_call ==
    /\ impl = "backup"
    /\ pc \in {"idle", "returned", "raised"}
    /\ \E sp \in 0 .. S, spin \in {1, -1}, kk \in 0 .. S - 1, r \in Raw :
         LET drawn == IF AcceptanceDraws(sp, spin, kk) THEN <<r>> ELSE <<>>
         IN /\ Consume(drawn, <<URes>>)
            /\ outcome' = IF acceptance(sp, spin, kk, AsUniform(r))
                          THEN "accept" ELSE "reject"
            /\ decision' =
                 <<[dE |-> dE(sp, spin, kk),
                    P |-> [j \in 1 .. Len(drawn) |-> AsUniform(drawn[j])]]>>
    /\ UNCHANGED <<varsParams, varsHam, varsMetro, varsBackup, N, pc, calls,
                   frozen, first>>

\* acceptance_rate > self.max_acceptance
RateAbove(rate, acc) == rate[1] * acc[2] > acc[1] * rate[2]

\* lines 111-114, up to the call of calibrate
backup_sample_call(n) ==
    /\ impl = "backup"
    /\ pc \in {"idle", "returned", "raised"}
    /\ calls < MaxCalls
    /\ N' = IF n # NoneArg THEN n ELSE N
    /\ model_configs' = Zeros(N', S)
    /\ pc' = "calibrate"
    /\ calls' = calls + 1
    /\ pos' = 0
    /\ configuration' = <<>>
    /\ Sp' = 0
    /\ flip_spins' = <<>>
    /\ k' = 0
    /\ acceptance_rate' = <<1, 1>>
    /\ outcome' = "none"
    /\ frozen' = <<>>
    /\ UNCHANGED <<varsParams, decision, varsHam, varsMetro, acceptance_history, tape,
                   first>>

\* lines 87-88
backup_calibrate_draw ==
    /\ impl = "backup"
    /\ pc = "calibrate"
    /\ \E d \in [1 .. S -> Raw] :
         /\ Consume(d, [j \in 1 .. S |-> 2])
         /\ configuration' = [j \in 1 .. S |-> AsSpin(d[j])]
    /\ acceptance_rate' = <<1, 1>>
    /\ pc' = "while"
    /\ UNCHANGED <<varsParams, decision, varsHam, varsMetro, N, acceptance_history,
                   model_configs, Sp, flip_spins, k, calls, outcome, frozen,
                   first>>

\* lines 90-94: the while test holds; Sp and the batch of M indexes
backup_batch_start ==
    /\ impl = "backup"
    /\ pc = "while"
    /\ RateAbove(acceptance_rate, max_acceptance)
    /\ Sp' = CountNonzero(PlusOne(configuration))
    /\ \E d \in [1 .. M -> Raw] :
         /\ Consume(d, [j \in 1 .. M |-> S])
         /\ flip_spins' = [j \in 1 .. M |-> AsIndex(d[j])]
    /\ k' = 0
    /\ pc' = "batch"
    /\ UNCHANGED <<varsParams, decision, varsHam, varsMetro, N, acceptance_history,
                   model_configs, configuration, acceptance_rate, calls,
                   outcome, frozen, first>>

\* variant of Proposed: an accepted flip leaves Sp as it was
ProposedKeepsSp(accepted, idx) ==
    IF accepted
    THEN <<[configuration EXCEPT ![idx + 1] = - configuration[idx + 1]], Sp>>
    ELSE <<configuration, Sp>>

\* what one accepted or rejected proposal does to (configuration, Sp)
Proposed(accepted, idx) ==
    IF accepted
    THEN <<[configuration EXCEPT ![idx + 1] = - configuration[idx + 1]],
           Sp + (- configuration[idx + 1])>>
    ELSE <<configuration, Sp>>

\* lines 96-101, one iteration of the for loop
backup_propose ==
    /\ impl = "backup"
    /\ pc = "batch"
    /\ k < Len(flip_spins)
    /\ \E r \in Raw :
         LET idx == flip_spins[k + 1]
             spin == - configuration[idx + 1]
             accepted == acceptance(Sp, spin, idx, AsUniform(r))
         IN /\ Consume(IF AcceptanceDraws(Sp, spin, idx) THEN <<r>> ELSE <<>>,
                       <<URes>>)
            /\ acceptance_history' =
                 IF accepted THEN Append(acceptance_history, 1)
                 ELSE acceptance_history
            /\ configuration' = Proposed(accepted, idx)[1]
            /\ Sp' = Proposed(accepted, idx)[2]
            /\ outcome' = IF accepted THEN "accept" ELSE "reject"
    /\ k' = k + 1
    /\ UNCHANGED <<varsParams, decision, varsHam, varsMetro, N, model_configs,
                   flip_spins, acceptance_rate, pc, calls, frozen, first>>

\* lines 103-104
backup_batch_end ==
    /\ impl = "backup"
    /\ pc = "batch"
    /\ ~ (k < Len(flip_spins))
    /\ acceptance_rate' = <<Len(acceptance_history), M>>
    /\ acceptance_history' = <<>>
    /\ pc' = "while"
    /\ UNCHANGED <<varsParams, decision, varsHam, varsMetro, varsRng, N, model_configs,
                   configuration, Sp, flip_spins, k, calls, outcome, frozen,
                   first>>

\* self.model_configs[0] = configuration: the values are copied into the row
StoreRow(rows, r, c) == [rows EXCEPT ![r] = c]

\* lines 106-107 (IndexError when N = 0), then sample's lines 115-121
backup_calibrate_exit ==
    /\ impl = "backup"
    /\ pc = "while"
    /\ ~ RateAbove(acceptance_rate, max_acceptance)
    /\ frozen' = configuration
    /\ IF N = 0
       THEN /\ pc' = "raised"
            /\ UNCHANGED <<model_configs, Sp, flip_spins, k, varsRng>>
       ELSE /\ model_configs' = StoreRow(model_configs, 1, configuration)
            /\ Sp' = CountNonzero(PlusOne(configuration))
            /\ \E d \in [1 .. SampleRange(N) -> Raw] :
                 /\ Consume(d, [j \in 1 .. SampleRange(N) |-> S])
                 /\ flip_spins' = [j \in 1 .. SampleRange(N) |-> AsIndex(d[j])]
            /\ k' = 0
            /\ pc' = "sampling"
    /\ UNCHANGED <<varsParams, decision, varsHam, varsMetro, N, acceptance_history,
                   configuration, acceptance_rate, calls, outcome, first>>

\* lines 123-132, one iteration
backup_sample_loop ==
    /\ impl = "backup"
    /\ pc = "sampling"
    /\ k < Len(flip_spins)
    /\ \E r \in Raw :
         LET idx == flip_spins[k + 1]
             spin == - configuration[idx + 1]
             accepted == acceptance(Sp, spin, idx, AsUniform(r))
         IN /\ Consume(IF AcceptanceDraws(Sp, spin, idx) THEN <<r>> ELSE <<>>,
                       <<URes>>)
            /\ configuration' = Proposed(accepted, idx)[1]
            /\ Sp' = Proposed(accepted, idx)[2]
            /\ outcome' = IF accepted THEN "accept" ELSE "reject"
            /\ model_configs' = StoreRow(model_configs, RowAfter(k) + 1, configuration')
    /\ k' = k + 1
    /\ UNCHANGED <<varsParams, decision, varsHam, varsMetro, N, acceptance_history,
                   flip_spins, acceptance_rate, pc, calls, frozen, first>>

\* line 134
backup_sample_return ==
    /\ impl = "backup"
    /\ pc = "sampling"
    /\ ~ (k < Len(flip_spins))
    /\ pc' = "returned"
    /\ UNCHANGED <<varsParams, decision, varsHam, varsMetro, varsBackup, varsRng, N,
                   calls, outcome, frozen, first>>

----------------------------------------------------------------------------
(* Construction: __init__ stores its arguments and checks nothing.         *)

InitParams(seed, impls, Ss, Ms, Ns, accs) ==
    /\ impl \in impls
    /\ S \in Ss
    /\ M \in Ms
    /\ N \in Ns
    /\ max_acceptance \in accs
    /\ seeded = seed
    /\ L_multipliers \in (IF impl = "backup" THEN BackupMultipliers(S) ELSE {<<>>})
    /\ constraint_funcs = <<>>
    /\ history = <<>>
    /\ configs = <<>>
    /\ s_last = <<>>
    /\ index = 0
    /\ i = 0
    /\ acceptance_history = <<>>
    /\ model_configs = <<>>
    /\ configuration = <<>>
    /\ Sp = 0
    /\ flip_spins = <<>>
    /\ k = 0
    /\ acceptance_rate = <<1, 1>>
    /\ pc = "idle"
    /\ tape = <<>>
    /\ pos = 0
    /\ calls = 0
    /\ outcome = "none"
    /\ frozen = <<>>
    /\ h0 = 0
    /\ first = <<>>
    /\ ham_result = "none"
    /\ decision = <<>>

Init ==
    InitParams(FALSE, {"metropolis", "backup"}, 1 .. MaxS, 1 .. MaxM,
               0 .. MaxN, MaxAcceptanceValues)

NextMetropolis ==
    \/ \E h \in HamiltonianChoices : set_hamiltonian(h[1], h[2])
    \/ \E n \in SampleArguments : sample_call(n)
    \/ calibrate_draw
    \/ calibrate_first
    \/ calibrate_loop
    \/ calibrate_exit
    \/ sample_loop
    \/ sample_return

NextBackup ==
    \/ \E n \in SampleArguments : backup_sample_call(n)
    \/ backup_calibrate_draw
    \/ backup_batch_start
    \/ backup_propose
    \/ backup_batch_end
    \/ backup_calibrate_exit
    \/ backup_sample_loop
    \/ backup_sample_return

Next == NextMetropolis \/ NextBackup

Spec == Init /\ [][Next]_vars

\* the caller seeds np.random with one seed before every sample() call
InitSeeded ==
    InitParams(TRUE, {"metropolis"}, {MaxS}, {MaxM}, {MaxN}, {<<1, 2>>})

NextSeeded ==
    \/ set_hamiltonian(<<1>>, <<"sum">>)
    \/ sample_call(NoneArg)
    \/ calibrate_draw
    \/ calibrate_first
    \/ calibrate_loop
    \/ calibrate_exit
    \/ sample_loop
    \/ sample_return

SpecSeeded == InitSeeded /\ [][NextSeeded]_vars

\* a running call goes on, and np.random yields every uniform level again and
\* again: a proposal that may be rejected infinitely often is rejected at
\* some time
SpecFair ==
    /\ Init
    /\ [][Next]_vars
    /\ WF_vars(Next)
    /\ SF_vars(backup_propose /\ outcome' = "reject")

\* the two decision functions called directly, on any Hamiltonian
InitDecision ==
    InitParams(FALSE, {"metropolis", "backup"}, 1 .. MaxS, {1}, {1},
               {<<1, 2>>})

NextDecision ==
    \/ \E h \in HamiltonianChoices : set_hamiltonian(h[1], h[2])
    \/ choice_call
    \/ acceptance_call

SpecDecision == InitDecision /\ [][NextDecision]_vars

----------------------------------------------------------------------------
(* Properties.                                                             *)

\* the matrix sample() returns
Trajectory == IF impl = "metropolis" THEN configs ELSE model_configs

\* iterations of sample's loop completed by the running call
StepsDone == IF impl = "metropolis" THEN i ELSE k

\* C1: when sample() returns, the trajectory has exactly N rows and every
\* row has exactly S columns, in both implementations.
C1_ShapeOnReturn ==
    pc = "returned" =>
      /\ Len(Trajectory) = N
      /\ \A r \in 1 .. Len(Trajectory) : Len(Trajectory[r]) = S

C1_Witness ==
    /\ pc = "returned"
    /\ impl = "backup"
    /\ calls = 2
    /\ N = MaxN
    /\ S = MaxS

\* C2: when sample() returns, every entry of every row is +1 or -1; no
\* placeholder 0 written at allocation is left.
C2_EntriesAreSpins ==
    pc = "returned" =>
      \A r \in 1 .. Len(Trajectory) :
        \A c \in 1 .. Len(Trajectory[r]) : Trajectory[r][c] \in {1, -1}

C2_Witness ==
    /\ pc = "returned"
    /\ impl = "metropolis"
    /\ N = MaxN
    /\ S = MaxS
    /\ outcome = "accept"

\* C3: from the end of calibration until sample() returns, row 0 of the
\* trajectory is the configuration calibration held when its loop ended.
C3_RowZeroFrozen ==
    pc \in {"sampling", "returned"} => Trajectory[1] = frozen

C3_Witness ==
    /\ pc = "returned"
    /\ impl = "backup"
    /\ N >= 2
    /\ configuration # frozen
    /\ model_configs[1] = frozen

\* C4: after a production step whose outcome is reject, the row just written
\* equals the row before it.
C4_RejectRepeatsRow ==
    (pc \in {"sampling", "returned"} /\ StepsDone >= 1 /\ outcome = "reject")
      => Trajectory[StepsDone + 1] = Trajectory[StepsDone]

C4_Witness ==
    /\ pc = "sampling"
    /\ impl = "metropolis"
    /\ i = MaxN - 1
    /\ outcome = "reject"
    /\ calls = 2

\* C5: a second sample() call on the same sampler that consumes the same
\* random stream, with the same N and Hamiltonian, returns the trajectory the
\* first call returned.
C5_SeededRunsAgree ==
    ( /\ pc = "returned"
      /\ calls = 2
      /\ first # <<>>
      /\ first[1].N = N
      /\ first[1].L = L_multipliers
      /\ first[1].funcs = constraint_funcs )
      => configs = first[1].trajectory

\* C6: in every sample() call of metropolis.py, calibration ends only after
\* at least M proposals of that call, so the window of the stopping test holds
\* outcomes of that call's calibration only.
C6_CalibrationOwnsWindow ==
    (impl = "metropolis" /\ pc = "sampling")
      => Len(history) - h0 - i >= M

\* the loop condition as the claim states it
C7_Continue ==
    LET n == Min(Len(history), M)
        w == SubSeq(history, Len(history) - n + 1, Len(history))
    IN \/ Len(history) < M
       \/ SumSeq(w) * max_acceptance[2] > max_acceptance[1] * n

\* C7: at the head of calibrate's loop (metropolis.py) the loop goes on
\* exactly while len(history) < M or the mean of the last min(len, M) entries
\* exceeds max_acceptance; it ends otherwise, and then history holds at least
\* M entries whose last M have a mean of at most max_acceptance.
C7_StoppingRule ==
    [][ (impl = "metropolis" /\ pc = "calibrate_loop") =>
          IF C7_Continue
          THEN pc' = "calibrate_loop" /\ Len(history') = Len(history) + 1
          ELSE /\ pc' \in {"sampling", "raised"}
               /\ history' = history
               /\ Len(history) >= M
               /\ SumSeq(SubSeq(history, Len(history) - M + 1, Len(history)))
                    * max_acceptance[2] <= max_acceptance[1] * M ]_vars

C7_Witness ==
    /\ impl = "metropolis"
    /\ pc = "sampling"
    /\ i = 0
    /\ M = 2
    /\ max_acceptance = <<1, 2>>
    /\ Len(history) - h0 > M
    /\ SumSeq(SubSeq(history, Len(history) - M + 1, Len(history))) = 1

\* C8: for the working configuration and every site, dE of the flip equals
\* the energy after the flip minus the energy before it, both computed by
\* compute_energy (metropolis_backup.py) on the presence matrix of the
\* configuration.
C8_DeltaMatchesEnergy ==
    (impl = "backup" /\ configuration # <<>>) =>
      \A site \in 0 .. S - 1 :
        dE(CountNonzero(PlusOne(configuration)), - configuration[site + 1], site)
          = compute_energy_backup(<<PlusOne(Flipped(configuration, site))>>,
                                  L_multipliers)
            - compute_energy_backup(<<PlusOne(configuration)>>, L_multipliers)

\* C9: a sampler on which no sample() call was made yet holds the
\* constructor's parameters, and these are S >= 1, M >= 1, N >= 1 and
\* 0 < max_acceptance <= 1.
C9_ConstructionValidates ==
    calls = 0 =>
      /\ S >= 1
      /\ M >= 1
      /\ N >= 1
      /\ max_acceptance[1] > 0
      /\ max_acceptance[1] <= max_acceptance[2]

\* C10: the latest set_hamiltonian call raised exactly when its two
\* arguments differ in length; the call itself reports it and no step of
\* sample() is involved.
C10_LengthMismatchRaises ==
    /\ (impl = "metropolis" /\ ham_result # "none") =>
         (ham_result = "raised" <=> Len(L_multipliers) # Len(constraint_funcs))
    /\ (ham_result # "none" /\ calls = 0) => pc = "idle"

C10_Witness ==
    /\ ham_result = "raised"
    /\ calls = 0
    /\ Len(L_multipliers) > Len(constraint_funcs)

\* C11: choice() and acceptance() decide by one rule on dE = E(new) - E(old):
\* with dE < 0 the proposal is accepted and no uniform value is drawn;
\* otherwise exactly one uniform P is drawn and the proposal is accepted
\* exactly when P < exp(-dE), so always when dE = 0.  The decision depends on
\* dE and P only, so the two functions agree on equal dE and P.
C11_AcceptanceRule ==
    decision # <<>> =>
      LET d == decision[1].dE
          P == decision[1].P
      IN IF d < 0
         THEN outcome = "accept" /\ Len(P) = 0
         ELSE /\ Len(P) = 1
              /\ outcome = "accept" <=> P[1] * ExpTimes1000(d) < URes * 1000
              /\ (d = 0) => outcome = "accept"

C11_Witness ==
    /\ impl = "backup"
    /\ decision # <<>>
    /\ decision[1].dE > 0
    /\ decision[1].P = <<0>>
    /\ outcome = "accept"

\* C12: calibration never goes on forever: a sample() call that entered
\* calibrate leaves its loop at some time, for the trajectory or with an
\* error (metropolis_backup.py, whose loop the model runs without a cap).
C12_CalibrationEnds ==
    (impl = "backup" /\ pc = "calibrate") ~> (pc \in {"sampling", "raised"})

\* a step of metropolis.py that proposes one flip and decides on it
C13_IsProposal ==
    \/ pc \in {"calibrate_first", "calibrate_loop"} /\ pc' = "calibrate_loop"
    \/ pc = "sampling" /\ i' = i + 1

\* the configuration the step started from, and the one it left
C13_Before == IF pc = "sampling" THEN configs[i + 1] ELSE s_last

C13_After == IF pc = "sampling" THEN configs'[i' + 1] ELSE s_last'

\* C13: in metropolis.py every proposal of calibration and of production
\* appends exactly one entry to history, 1 exactly when the proposal was
\* accepted (the configuration changed), else 0; no other step touches
\* history, whose entries are all 0 or 1; and a call returns after exactly
\* N-1 production proposals, so it grew history by its calibration proposals
\* plus N-1.
C13_HistoryIsLog ==
    [][ impl = "metropolis" =>
          /\ IF C13_IsProposal
             THEN /\ Len(history') = Len(history) + 1
                  /\ SubSeq(history', 1, Len(history)) = history
                  /\ history'[Len(history')] = 1 <=> outcome' = "accept"
                  /\ history'[Len(history')] = 1 <=> C13_After # C13_Before
                  /\ history'[Len(history')] = 0 <=> outcome' = "reject"
             ELSE history' = history
          /\ \A j \in 1 .. Len(history') : history'[j] \in {0, 1}
          /\ (pc = "sampling" /\ pc' = "returned") =>
               /\ i = N - 1
               /\ Len(history) - h0 - (N - 1) >= 1 ]_vars

C13_Witness ==
    /\ impl = "metropolis"
    /\ pc = "returned"
    /\ calls = 2
    /\ N = MaxN
    /\ h0 > 0
    /\ \E a, b \in h0 + 1 .. Len(history) : history[a] = 1 /\ history[b] = 0

\* a step of either file that proposes one flip and decides on it
C14_IsProposal ==
    IF impl = "metropolis"
    THEN C13_IsProposal
    ELSE pc \in {"batch", "sampling"} /\ k' = k + 1

\* the working configuration before and after the step
C14_Before == IF impl = "metropolis" THEN C13_Before ELSE configuration

C14_After == IF impl = "metropolis" THEN C13_After ELSE configuration'

\* the columns in which two configurations differ
C14_Differing(a, b) == {c \in 1 .. Len(a) : a[c] # b[c]}

\* C14: a proposal changes the working configuration in exactly one site,
\* by negation, when it is accepted (in metropolis_backup.py the site is the
\* proposed index) and in no site when it is rejected, in calibration and in
\* production; a production step stores the configuration it left as the
\* next row, so consecutive rows of a returned trajectory differ in at most
\* one column.
C14_SingleSpinFlip ==
    [][ /\ C14_IsProposal =>
             LET diff == C14_Differing(C14_Before, C14_After)
             IN /\ outcome' = "accept" =>
                     /\ Cardinality(diff) = 1
                     /\ \A c \in diff : C14_After[c] = - C14_Before[c]
                     /\ impl = "backup" => diff = {flip_spins[k + 1] + 1}
                /\ outcome' = "reject" => diff = {}
                /\ outcome' \in {"accept", "reject"}
                /\ pc = "sampling" =>
                     /\ Trajectory[StepsDone + 1] = C14_Before
                     /\ Trajectory'[StepsDone' + 1] = C14_After
        /\ pc' = "returned" =>
             \A r \in 2 .. Len(Trajectory') :
               LET diff == C14_Differing(Trajectory'[r - 1], Trajectory'[r])
               IN /\ Cardinality(diff) <= 1
                  /\ \A c \in diff : Trajectory'[r][c] = - Trajectory'[r - 1][c]
      ]_vars

C14_Witness ==
    /\ impl = "backup"
    /\ pc = "returned"
    /\ S = MaxS
    /\ N = MaxN
    /\ Cardinality(C14_Differing(model_configs[N - 1], model_configs[N])) = 1

\* C15: calibrate of metropolis_backup.py proposes in batches of exactly M:
\* inside a batch every accepted proposal adds one entry to
\* acceptance_history; the batch ends after M proposals with
\* acceptance_rate = (accepted in the batch) / M and an emptied
\* acceptance_history; the loop goes on while that rate exceeds
\* max_acceptance and ends after the first batch whose rate does not, so
\* calibrate returns after at least one full batch, with acceptance_history
\* empty.
C15_BatchCalibration ==
    [][ impl = "backup" =>
          /\ pc = "while" => acceptance_history = <<>>
          /\ (pc = "while" /\ pc' = "batch") =>
               /\ RateAbove(acceptance_rate, max_acceptance)
               /\ Len(flip_spins') = M
               /\ k' = 0
          /\ (pc = "batch" /\ pc' = "batch") =>
               /\ k < M
               /\ k' = k + 1
               /\ Len(acceptance_history') =
                    Len(acceptance_history)
                      + (IF outcome' = "accept" THEN 1 ELSE 0)
          /\ (pc = "batch" /\ pc' = "while") =>
               /\ k = M
               /\ acceptance_rate' = <<Len(acceptance_history), M>>
               /\ acceptance_history' = <<>>
          /\ (pc = "while" /\ pc' \in {"sampling", "raised"}) =>
               /\ ~ RateAbove(acceptance_rate, max_acceptance)
               /\ acceptance_history' = <<>>
               /\ Len(flip_spins) = M
               /\ k = M ]_vars

\* C16: in metropolis_backup.py, whenever acceptance(Sp, spin, index) is
\* about to be called or has just returned, in calibration and in
\* production, Sp is the number of +1 entries of the working configuration.
C16_SpCountsPlusOnes ==
    (impl = "backup" /\ pc \in {"batch", "sampling", "returned"}) =>
      Sp = Cardinality({j \in 1 .. Len(configuration) : configuration[j] = 1})

C16_Witness ==
    /\ impl = "backup"
    /\ pc = "sampling"
    /\ k = 1
    /\ outcome = "accept"
    /\ calls = 2
    /\ S = MaxS
    /\ Sp = 1
    /\ configuration # frozen

\* C17: a set_hamiltonian call that raises for mismatched lengths leaves the
\* stored L_multipliers and constraint_funcs as they were before the call
\* (no other step writes them, so a step that ends with the latest call
\* having raised changes neither).
C17_RaiseKeepsHamiltonian ==
    [][ (impl = "metropolis" /\ ham_result' = "raised") =>
          /\ L_multipliers' = L_multipliers
          /\ constraint_funcs' = constraint_funcs ]_vars

====
